---- MODULE Spec2Model ----
(***************************************************************************)
(* GitHubIntegrationPage (src/app/(protected)/integrations/github/page.tsx) *)
(* as a state machine: the component's useState cells, the identity that    *)
(* useUser() supplies, the requests in flight, and one action per effect    *)
(* run, click handler and request settlement.                               *)
(***************************************************************************)
EXTENDS Naturals, Sequences, FiniteSets, TLC

\* ------------------------------------------------------------------ bounds
MaxIdentityChanges == 2
MaxSyncs == 2
MaxDisconnects == 2
MaxUrlLen == 4

\* ------------------------------------------------------------- value sets
Undefined == "undefined"
NullUser == "null"
Null == <<>>
Some(x) == <<x>>

Here == "/integrations/github"
IntegrationsPath == "/integrations"

Profiles == {"octocat"}
RepoLists == {<<>>, <<"r1", "r2">>}
\* A subject URL is a sequence of tokens (scheme, host, path segments);
\* matches that would straddle a token are outside this alphabet.
ExampleUrl == <<"https://", "api.github.com", "/repos", "/acme/widget/issues/3">>
ExampleTarget == <<"https://", "github.com", "/acme/widget/issues/3">>
\* A notification as far as the page reads it: its id and subject.url
\* (null, or a URL of the GitHub API).
NotifLists ==
    {<<>>, <<[id |-> "n1", url |-> Some(ExampleUrl)], [id |-> "n2", url |-> Null]>>}
ErrorFields == {"Rate limited", Undefined}
DetailValues == {Undefined, "retryAfter: 30"}
ThrownMessages == {"Failed to fetch"}
ChunkCounts == {42}

UnknownErrorMessage == "An unknown error occurred"

\* What a request can settle with: an ok response and its body, a non-ok
\* response and its JSON body, a rejection with an Error (a network
\* TypeError, a JSON SyntaxError), a rejection with a value that is no Error.
NonOkResponses == [kind : {"nonok"}, error : ErrorFields, details : DetailValues]
ThrownErrors == [kind : {"throwError"}, message : ThrownMessages]
ThrownOthers == {[kind |-> "throwNonError"]}
Failures == NonOkResponses \cup ThrownErrors \cup ThrownOthers

DataResponses ==
    [kind : {"ok"}, user : Profiles, repos : RepoLists, notifications : NotifLists]
        \cup Failures
SyncResponses == [kind : {"ok"}, chunks : ChunkCounts] \cup Failures
DisconnectResponses == {[kind |-> "ok"]} \cup Failures

VARIABLES
    userLoaded,       \* useUser().isLoaded
    isConnected,      \* truthiness of user?.externalAccounts?.some(github)
    githubUser, repos, notifications, loading, isSyncing, error,
    effectPending,    \* the deps [userLoaded, isConnected] changed since the effect last ran
    dataInFlight,     \* unsettled GET /api/github/data
    syncInFlight,     \* unsettled POST /api/github/sync
    discInFlight,     \* unsettled POST /api/github/disconnect
    toasts,           \* toasts emitted so far, oldest first
    location,         \* window.location.href
    getIssued,        \* history: GET /api/github/data dispatched so far
    getSettledOk,     \* history: of those, settled ok
    identityChanges, syncClicks, discClicks,
    lastStep          \* history: the step that led here, its outcome, the view before it

vars == <<userLoaded, isConnected, githubUser, repos, notifications, loading,
          isSyncing, error, effectPending, dataInFlight, syncInFlight,
          discInFlight, toasts, location, getIssued, getSettledOk,
          identityChanges, syncClicks, discClicks, lastStep>>

dataVars == <<githubUser, repos, notifications>>
identityVars == <<userLoaded, isConnected>>
counterVars == <<identityChanges, syncClicks, discClicks>>

\* ------------------------------------------------------------ pure helpers

\* new Error(errorData.error).message: a missing field gives "".
ErrorMessage(e) == IF e = Undefined THEN "" ELSE e

\* The value the catch block receives for a failed request.
Raise(resp) ==
    CASE resp.kind = "nonok" ->
            [isError |-> TRUE, message |-> ErrorMessage(resp.error),
             hasCause |-> TRUE, causeDetails |-> resp.details]
      [] resp.kind = "throwError" ->
            [isError |-> TRUE, message |-> resp.message,
             hasCause |-> FALSE, causeDetails |-> Undefined]
      [] OTHER ->
            [isError |-> FALSE, message |-> "",
             hasCause |-> FALSE, causeDetails |-> Undefined]

\* ErrorOf with the cause never consulted.
ErrorOf_NoDetails(err) == [message |-> err.message, details |-> Undefined]

\* { message: err.message, details: (err.cause as {details?})?.details }
ErrorOf(err) ==
    [message |-> err.message,
     details |-> IF err.hasCause THEN err.causeDetails ELSE Undefined]

UnknownError == [message |-> UnknownErrorMessage, details |-> Undefined]

\* CatchSetError with the non-Error branch setting nothing.
CatchSetError_ErrorsOnly(err) == IF err.isError THEN Some(ErrorOf(err)) ELSE Null

\* CatchSetError without the instanceof test.
CatchSetError_MessageOfAny(err) == Some(ErrorOf(err))

\* The catch blocks of fetchGitHubData and handleDisconnect.
CatchSetError(err) == IF err.isError THEN Some(ErrorOf(err)) ELSE Some(UnknownError)

\* SyncCatchError with the non-Error branch calling setError(null).
SyncCatchError_ClearsOnNonError(err, cur) ==
    IF err.isError THEN Some(ErrorOf(err)) ELSE Null

\* SyncCatchError with no setError in either branch.
SyncCatchError_ToastOnly(err, cur) == cur

\* The catch block of handleSync: the non-Error branch calls no setError.
SyncCatchError(err, cur) == IF err.isError THEN Some(ErrorOf(err)) ELSE cur

SyncCatchToast(err) ==
    [type |-> "error", title |-> "Sync Failed",
     description |-> <<IF err.isError THEN err.message ELSE UnknownErrorMessage>>]

\* SyncSuccessToast with a fixed description.
SyncSuccessToast_NoCount(chunks) ==
    [type |-> "success", title |-> "GitHub Data Synced",
     description |-> <<"Successfully stored chunks in the database.">>]

\* toast.success("GitHub Data Synced", {description: `... ${result.chunks} ...`})
SyncSuccessToast(chunks) ==
    [type |-> "success", title |-> "GitHub Data Synced",
     description |-> <<"Successfully stored ", ToString(chunks),
                       " chunks in the database.">>]

\* The arguments of subject.url.replace(...).
ApiPrefix == <<"api.github.com", "/repos">>
WebHost == <<"github.com">>

Matches(s, pat, i) ==
    /\ i + Len(pat) - 1 <= Len(s)
    /\ \A j \in 1..Len(pat) : s[i + j - 1] = pat[j]

\* The index of the first occurrence of pat in s, 0 if there is none.
IndexOf(s, pat) ==
    IF \E i \in 1..Len(s) : Matches(s, pat, i)
      THEN CHOOSE i \in 1..Len(s) :
              /\ Matches(s, pat, i)
              /\ \A k \in 1..(i - 1) : ~Matches(s, pat, k)
      ELSE 0

\* String.prototype.replace with a string pattern: the first occurrence only.
Replace(s, pat, rep) ==
    LET i == IndexOf(s, pat)
    IN  IF i = 0 THEN s
        ELSE SubSeq(s, 1, i - 1) \o rep \o SubSeq(s, i + Len(pat), Len(s))

\* LinkHref with only the host replaced.
LinkHref_KeepsRepos(n) ==
    IF n.url # Null /\ n.url[1] # <<>>
      THEN Some(Replace(n.url[1], <<"api.github.com">>, WebHost))
      ELSE Null

\* {notification.subject.url && <Link href={url.replace(...)}>}: the href
\* of the link rendered for a notification, Null when none is rendered.
LinkHref(n) ==
    IF n.url # Null /\ n.url[1] # <<>>
      THEN Some(Replace(n.url[1], ApiPrefix, WebHost))
      ELSE Null

\* notifications.map(...): the links of the Connected view.
RenderedLinks == [i \in DOMAIN notifications |-> LinkHref(notifications[i])]

\* EffectSkipsFetch without the isConnected test.
EffectSkipsFetch_LoadedOnly == ~userLoaded

\* The early return of fetchGitHubData.
EffectSkipsFetch == ~userLoaded \/ ~isConnected

\* View with the error panel tested before the connect prompt.
View_ErrorFirst ==
    IF ~userLoaded \/ loading THEN "Loading"
    ELSE IF error # Null THEN "Error"
    ELSE IF ~isConnected THEN "NotConnected"
    ELSE "Connected"

\* The render selector: the chain of early returns.
View ==
    IF ~userLoaded \/ loading THEN "Loading"
    ELSE IF ~isConnected THEN "NotConnected"
    ELSE IF error # Null THEN "Error"
    ELSE "Connected"

\* SyncDisabled with the disabled attribute left out.
SyncDisabled_Never == FALSE

\* disabled={isSyncing} on the sync button.
SyncDisabled == isSyncing

Step(op, kind) == [op |-> op, kind |-> kind, viewBefore |-> View]

\* ------------------------------------------------------------------- Init
Init ==
    /\ userLoaded \in BOOLEAN
    /\ isConnected \in BOOLEAN
    /\ (~userLoaded => ~isConnected)
    /\ githubUser = NullUser
    /\ repos = <<>>
    /\ notifications = <<>>
    /\ loading = TRUE
    /\ isSyncing = FALSE
    /\ error = Null
    /\ effectPending = TRUE
    /\ dataInFlight = 0
    /\ syncInFlight = 0
    /\ discInFlight = 0
    /\ toasts = <<>>
    /\ location = Here
    /\ getIssued = 0
    /\ getSettledOk = 0
    /\ identityChanges = 0
    /\ syncClicks = 0
    /\ discClicks = 0
    /\ lastStep = [op |-> "mount", kind |-> "none", viewBefore |-> "Loading"]

\* ---------------------------------------------------------------- actions

\* useUser() delivers a new identity: it becomes loaded, or a loaded user's
\* GitHub account is linked or unlinked.  The deps of the effect change.
IdentityChange ==
    /\ location = Here
    /\ ~effectPending
    /\ identityChanges < MaxIdentityChanges
    /\ IF ~userLoaded
         THEN userLoaded' = TRUE /\ isConnected' \in BOOLEAN
         ELSE userLoaded' = TRUE /\ isConnected' = ~isConnected
    /\ effectPending' = TRUE
    /\ identityChanges' = identityChanges + 1
    /\ lastStep' = Step("identity", "none")
    /\ UNCHANGED <<dataVars, loading, isSyncing, error, dataInFlight,
                   syncInFlight, discInFlight, toasts, location, getIssued,
                   getSettledOk, syncClicks, discClicks>>

\* The effect: fetchGitHubData() up to its first await.
RunEffect ==
    /\ location = Here
    /\ effectPending
    /\ effectPending' = FALSE
    /\ IF EffectSkipsFetch
         THEN /\ loading' = FALSE
              /\ lastStep' = Step("effect", "skip")
              /\ UNCHANGED <<dataInFlight, getIssued>>
         ELSE /\ dataInFlight' = dataInFlight + 1
              /\ getIssued' = getIssued + 1
              /\ lastStep' = Step("effect", "fetch")
              /\ UNCHANGED loading
    /\ UNCHANGED <<identityVars, dataVars, isSyncing, error, syncInFlight,
                   discInFlight, toasts, location, getSettledOk, counterVars>>

\* DataApplied with the repository list stored in the order reversed.
DataApplied_ReversedRepos(resp) ==
    <<resp.user,
      [i \in 1..Len(resp.repos) |-> resp.repos[Len(resp.repos) + 1 - i]],
      resp.notifications>>

\* setGithubUser(data.user); setRepos(data.repos);
\* setNotifications(data.notifications): the new <<githubUser, repos,
\* notifications>>.
DataApplied(resp) == <<resp.user, resp.repos, resp.notifications>>

\* DataFinally with setLoading(false) at the end of the try block instead.
DataFinally_OnlyOnSuccess(resp) == IF resp.kind = "ok" THEN FALSE ELSE loading

\* setLoading(false) in the finally block of fetchGitHubData.
DataFinally(resp) == FALSE

\* fetchGitHubData() from the settlement of its fetch to its end.
DataSettle(resp) ==
    /\ location = Here
    /\ dataInFlight > 0
    /\ dataInFlight' = dataInFlight - 1
    /\ IF resp.kind = "ok"
         THEN /\ githubUser' = DataApplied(resp)[1]
              /\ repos' = DataApplied(resp)[2]
              /\ notifications' = DataApplied(resp)[3]
              /\ getSettledOk' = getSettledOk + 1
              /\ UNCHANGED error
         ELSE /\ error' = CatchSetError(Raise(resp))
              /\ UNCHANGED <<dataVars, getSettledOk>>
    /\ loading' = DataFinally(resp)
    /\ lastStep' = Step("dataSettle", resp.kind)
    /\ UNCHANGED <<identityVars, isSyncing, effectPending, syncInFlight,
                   discInFlight, toasts, location, getIssued, counterVars>>

\* HandleSync with the data request given up when a sync starts.
HandleSync_AbortsFetch ==
    /\ location = Here
    /\ ~effectPending
    /\ View = "Connected"
    /\ ~SyncDisabled
    /\ syncClicks < MaxSyncs
    /\ isSyncing' = TRUE
    /\ syncInFlight' = syncInFlight + 1
    /\ syncClicks' = syncClicks + 1
    /\ dataInFlight' = 0
    /\ lastStep' = Step("sync", "none")
    /\ UNCHANGED <<identityVars, dataVars, loading, error, effectPending,
                   discInFlight, toasts, location, getIssued,
                   getSettledOk, identityChanges, discClicks>>

\* handleSync up to its first await.  The button exists in the Connected
\* view only and is disabled while isSyncing.
HandleSync ==
    /\ location = Here
    /\ ~effectPending
    /\ View = "Connected"
    /\ ~SyncDisabled
    /\ syncClicks < MaxSyncs
    /\ isSyncing' = TRUE
    /\ syncInFlight' = syncInFlight + 1
    /\ syncClicks' = syncClicks + 1
    /\ lastStep' = Step("sync", "none")
    /\ UNCHANGED <<identityVars, dataVars, loading, error, effectPending,
                   dataInFlight, discInFlight, toasts, location, getIssued,
                   getSettledOk, identityChanges, discClicks>>

\* SyncFinally with setIsSyncing(false) at the end of the try block instead.
SyncFinally_OnlyOnSuccess(resp) == resp.kind # "ok"

\* setIsSyncing(false) in the finally block of handleSync.
SyncFinally(resp) == FALSE

\* SyncSettle with the page's data fetched again after a sync.
SyncSettle_Refetches(resp) ==
    /\ location = Here
    /\ syncInFlight > 0
    /\ syncInFlight' = syncInFlight - 1
    /\ IF resp.kind = "ok"
         THEN /\ toasts' = Append(toasts, SyncSuccessToast(resp.chunks))
              /\ dataInFlight' = dataInFlight + 1
              /\ getIssued' = getIssued + 1
              /\ UNCHANGED error
         ELSE /\ error' = SyncCatchError(Raise(resp), error)
              /\ toasts' = Append(toasts, SyncCatchToast(Raise(resp)))
              /\ UNCHANGED <<dataInFlight, getIssued>>
    /\ isSyncing' = SyncFinally(resp)
    /\ lastStep' = Step("syncSettle", resp.kind)
    /\ UNCHANGED <<identityVars, dataVars, loading, effectPending,
                   discInFlight, location, getSettledOk, counterVars>>

\* handleSync from the settlement of its fetch to its end.
SyncSettle(resp) ==
    /\ location = Here
    /\ syncInFlight > 0
    /\ syncInFlight' = syncInFlight - 1
    /\ IF resp.kind = "ok"
         THEN /\ toasts' = Append(toasts, SyncSuccessToast(resp.chunks))
              /\ UNCHANGED error
         ELSE /\ error' = SyncCatchError(Raise(resp), error)
              /\ toasts' = Append(toasts, SyncCatchToast(Raise(resp)))
    /\ isSyncing' = SyncFinally(resp)
    /\ lastStep' = Step("syncSettle", resp.kind)
    /\ UNCHANGED <<identityVars, dataVars, loading, effectPending,
                   dataInFlight, discInFlight, location, getIssued,
                   getSettledOk, counterVars>>

\* DisconnectDisabled with a busy guard like the sync button's.
DisconnectDisabled_WhileInFlight == discInFlight > 0

\* The disconnect button has no disabled attribute.
DisconnectDisabled == FALSE

\* handleDisconnect up to its first await.  The button exists in the
\* Connected view only and is never disabled.
HandleDisconnect ==
    /\ location = Here
    /\ ~effectPending
    /\ View = "Connected"
    /\ ~DisconnectDisabled
    /\ discClicks < MaxDisconnects
    /\ discInFlight' = discInFlight + 1
    /\ discClicks' = discClicks + 1
    /\ lastStep' = Step("disconnect", "none")
    /\ UNCHANGED <<identityVars, dataVars, loading, isSyncing, error,
                   effectPending, dataInFlight, syncInFlight, toasts,
                   location, getIssued, getSettledOk, identityChanges,
                   syncClicks>>

\* handleDisconnect from the settlement of its fetch to its end.  The
\* assignment to window.location.href unloads the page: nothing of this
\* mount runs after it.
DisconnectSettle(resp) ==
    /\ location = Here
    /\ discInFlight > 0
    /\ discInFlight' = discInFlight - 1
    /\ IF resp.kind = "ok"
         THEN /\ location' = IntegrationsPath
              /\ UNCHANGED error
         ELSE /\ error' = CatchSetError(Raise(resp))
              /\ UNCHANGED location
    /\ lastStep' = Step("disconnectSettle", resp.kind)
    /\ UNCHANGED <<identityVars, dataVars, loading, isSyncing, effectPending,
                   dataInFlight, syncInFlight, toasts, getIssued,
                   getSettledOk, counterVars>>

Next ==
    \/ IdentityChange
    \/ RunEffect
    \/ \E resp \in DataResponses : DataSettle(resp)
    \/ HandleSync
    \/ \E resp \in SyncResponses : SyncSettle(resp)
    \/ HandleDisconnect
    \/ \E resp \in DisconnectResponses : DisconnectSettle(resp)

Spec == Init /\ [][Next]_vars

\* The effect runs after the render that changed its deps, and every
\* dispatched GET /api/github/data settles.
FairSpec ==
    /\ Spec
    /\ WF_vars(RunEffect)
    /\ WF_vars(\E resp \in DataResponses : DataSettle(resp))

\* ------------------------------------------------- rendering of the links
\* The page with its GET in flight, and every response whose single
\* notification carries a subject URL of at most MaxUrlLen tokens, or null.
UrlTokens ==
    {"https://", "api.github.com", "/repos", "github.com", "/acme/widget/issues/3"}
Urls == UNION {[1..n -> UrlTokens] : n \in 1..MaxUrlLen}
SubjectUrls == {Null} \cup {Some(u) : u \in Urls}
RenderResponses ==
    [kind : {"ok"}, user : Profiles, repos : {<<>>},
     notifications : {<<[id |-> "n1", url |-> u]>> : u \in SubjectUrls}]

InitRender ==
    /\ userLoaded = TRUE
    /\ isConnected = TRUE
    /\ githubUser = NullUser
    /\ repos = <<>>
    /\ notifications = <<>>
    /\ loading = TRUE
    /\ isSyncing = FALSE
    /\ error = Null
    /\ effectPending = FALSE
    /\ dataInFlight = 1
    /\ syncInFlight = 0
    /\ discInFlight = 0
    /\ toasts = <<>>
    /\ location = Here
    /\ getIssued = 1
    /\ getSettledOk = 0
    /\ identityChanges = 0
    /\ syncClicks = 0
    /\ discClicks = 0
    /\ lastStep = [op |-> "effect", kind |-> "fetch", viewBefore |-> "Loading"]

NextRender == \E resp \in RenderResponses : DataSettle(resp)

SpecRender == InitRender /\ [][NextRender]_vars

\* ------------------------------------------------------------------ claims

HasData == githubUser # NullUser \/ repos # <<>> \/ notifications # <<>>

\* C1 (as claimed): whenever identity is loaded, a GitHub account is linked
\* and a GET /api/github/data is unsettled, the view is Loading.
C1_LoadingUntilFetchSettles ==
    (userLoaded /\ isConnected /\ dataInFlight > 0) => View = "Loading"

\* C2 (as claimed): in every state with identity loaded and no linked
\* account the view is NotConnected, and no effect run with isConnected
\* false dispatches a GET.
C2_AlwaysNotConnected ==
    /\ (userLoaded /\ ~isConnected) => View = "NotConnected"
    /\ (lastStep.op = "effect" /\ lastStep.kind = "fetch") => isConnected

\* C2 (amended): once the effect has run for the current identity, identity
\* loaded and no linked account give the NotConnected view; and an effect
\* run dispatches a GET only with identity loaded and the account linked.
C2_NotConnectedAfterEffect ==
    /\ (userLoaded /\ ~isConnected /\ ~effectPending) => View = "NotConnected"
    /\ (lastStep.op = "effect" /\ lastStep.kind = "fetch")
          => (userLoaded /\ isConnected)
    /\ (lastStep.op = "effect" /\ ~isConnected) => lastStep.kind = "skip"

C2_Witness ==
    /\ lastStep.op = "effect" /\ lastStep.kind = "skip"
    /\ userLoaded /\ ~isConnected
    /\ View = "NotConnected"
    /\ getIssued = 0

\* C3: the sync control is disabled exactly while a sync request is in
\* flight, and enabled again right after any settlement of one.
C3_SyncDisabledWhileInFlight ==
    /\ (syncInFlight > 0) <=> SyncDisabled
    /\ SyncDisabled <=> isSyncing
    /\ lastStep.op = "syncSettle" => (~isSyncing /\ syncInFlight = 0)

C3_Witness ==
    /\ lastStep.op = "syncSettle" /\ lastStep.kind = "throwNonError"
    /\ ~isSyncing
    /\ syncClicks = 2

\* C4: the number of unsettled sync requests never exceeds one.
C4_AtMostOneSync == syncInFlight <= 1

C4_Witness == syncClicks = 2 /\ syncInFlight = 1 /\ View = "Connected"

\* C5 (as claimed): a non-ok sync settlement in the Connected view leaves
\* the view Connected.
C5_DashboardStays ==
    (lastStep.op = "syncSettle" /\ lastStep.kind = "nonok"
        /\ lastStep.viewBefore = "Connected")
    => View = "Connected"

\* C5 (amended): a non-ok sync settlement in the Connected view emits a
\* Sync Failed toast and sets ErrorState, so the view becomes Error.
C5_ErrorPanelReplacesDashboard ==
    (lastStep.op = "syncSettle" /\ lastStep.kind = "nonok"
        /\ lastStep.viewBefore = "Connected")
    => /\ View = "Error"
       /\ error # Null
       /\ toasts # <<>>
       /\ toasts[Len(toasts)].title = "Sync Failed"

C5_Witness ==
    /\ lastStep.op = "syncSettle" /\ lastStep.kind = "nonok"
    /\ lastStep.viewBefore = "Connected"
    /\ View = "Error"

\* C6 (as claimed): after every failed sync settlement error is non-null
\* and the sync has emitted exactly one Sync Failed toast.
C6_SyncFailureSetsError ==
    /\ Len(toasts) = syncClicks - syncInFlight
    /\ (lastStep.op = "syncSettle" /\ lastStep.kind # "ok")
          => /\ error # Null
             /\ toasts[Len(toasts)].title = "Sync Failed"

\* C7: an ok disconnect settlement navigates to /integrations and leaves
\* ErrorState alone; a failed one sets ErrorState from the response (the
\* generic message for a non-Error throw) and does not navigate.
C7_DisconnectOutcome ==
    [][\A resp \in DisconnectResponses :
          DisconnectSettle(resp) =>
             CASE resp.kind = "ok" ->
                    location' = IntegrationsPath /\ error' = error
               [] resp.kind = "nonok" ->
                    /\ location' = Here
                    /\ error' # Null
                    /\ resp.error # Undefined => error'[1].message = resp.error
                    /\ error'[1].details = resp.details
               [] resp.kind = "throwError" ->
                    /\ location' = Here
                    /\ error' = Some([message |-> resp.message,
                                      details |-> Undefined])
               [] OTHER ->
                    /\ location' = Here
                    /\ error' = Some([message |-> "An unknown error occurred",
                                      details |-> Undefined])]_vars

C7_Witness ==
    /\ lastStep.op = "disconnectSettle" /\ lastStep.kind = "throwNonError"
    /\ error = Some([message |-> "An unknown error occurred",
                     details |-> Undefined])
    /\ location = Here

\* C8: the render selector picks Loading iff identity is not loaded or
\* loading is set; else NotConnected iff no account is linked; else Error
\* iff error is non-null; else Connected.
C8_ViewByPriority ==
    /\ View \in {"Loading", "NotConnected", "Error", "Connected"}
    /\ View = "Loading" <=> (~userLoaded \/ loading)
    /\ View = "NotConnected" <=> (userLoaded /\ ~loading /\ ~isConnected)
    /\ View = "Error" <=>
          (userLoaded /\ ~loading /\ isConnected /\ error # Null)
    /\ View = "Connected" <=>
          (userLoaded /\ ~loading /\ isConnected /\ error = Null)

C8_Witness ==
    /\ userLoaded /\ ~loading /\ ~isConnected /\ error # Null
    /\ View = "NotConnected"

\* C9 (as claimed): populated profile, repository or notification state
\* implies a GET has settled ok, and the account is linked at the moment a
\* response populates the state.
C9_PopulatedOnlyWhileLinked ==
    /\ HasData => getSettledOk > 0
    /\ (lastStep.op = "dataSettle" /\ lastStep.kind = "ok") => isConnected

\* C10: a non-ok data settlement with body {error: m, details: d} sets
\* ErrorState to {message: m, details: d}, clears loading and leaves the
\* data alone; with identity loaded and the account linked the view is Error.
C10_FetchFailure ==
    [][\A resp \in NonOkResponses :
          (resp.error # Undefined /\ DataSettle(resp)) =>
             /\ error' = Some([message |-> resp.error, details |-> resp.details])
             /\ loading' = FALSE
             /\ dataVars' = dataVars
             /\ (userLoaded' /\ isConnected') => View' = "Error"]_vars

C10_Witness ==
    /\ lastStep.op = "dataSettle" /\ lastStep.kind = "nonok"
    /\ error = Some([message |-> "Rate limited", details |-> "retryAfter: 30"])
    /\ ~loading
    /\ View = "Error"
\* C11: an ok data settlement stores the response's user, repos and
\* notifications as they are (same elements, same order), clears loading
\* and leaves error alone.
C11_FetchSuccessMirrorsPayload ==
    [][\A resp \in DataResponses :
          (resp.kind = "ok" /\ DataSettle(resp)) =>
             /\ githubUser' = resp.user
             /\ repos' = resp.repos
             /\ Len(repos') = Len(resp.repos)
             /\ \A i \in 1..Len(resp.repos) : repos'[i] = resp.repos[i]
             /\ notifications' = resp.notifications
             /\ loading' = FALSE
             /\ error' = error]_vars

C11_Witness ==
    /\ lastStep.op = "dataSettle" /\ lastStep.kind = "ok"
    /\ githubUser = "octocat"
    /\ repos = <<"r1", "r2">>
    /\ Len(notifications) = 2
    /\ ~loading

\* C12: no step resets a non-null error to null, so once error is set the
\* view is never Connected again; and sync and disconnect are dispatched
\* from the Connected view only, never from Error or NotConnected.
C12_FailureIsTerminal ==
    [][/\ error # Null => (error' # Null /\ View' # "Connected")
       /\ lastStep'.op \in {"sync", "disconnect"} =>
             (View = "Connected" /\ View \notin {"Error", "NotConnected"})
       /\ View \in {"Error", "NotConnected"} =>
             /\ syncClicks' = syncClicks /\ discClicks' = discClicks
             /\ syncInFlight' <= syncInFlight
             /\ discInFlight' <= discInFlight]_vars

C12_Witness ==
    /\ error # Null
    /\ lastStep.op = "syncSettle" /\ lastStep.kind = "throwNonError"
    /\ lastStep.viewBefore = "Error"
    /\ View = "Error"
ContainsApiPrefix(s) ==
    \E k \in 1..(Len(s) - 1) : s[k] = "api.github.com" /\ s[k + 1] = "/repos"

C14_SyncLeavesPageData ==
    [][/\ HandleSync =>
             /\ dataVars' = dataVars /\ loading' = loading /\ error' = error
             /\ getIssued' = getIssued /\ dataInFlight' = dataInFlight
             /\ toasts' = toasts
             /\ ~isSyncing /\ isSyncing'
       /\ \A resp \in SyncResponses :
             (resp.kind = "ok" /\ SyncSettle(resp)) =>
                /\ dataVars' = dataVars /\ loading' = loading /\ error' = error
                /\ getIssued' = getIssued /\ dataInFlight' = dataInFlight
                /\ ~isSyncing'
                /\ Len(toasts') = Len(toasts) + 1
                /\ SubSeq(toasts', 1, Len(toasts)) = toasts
                /\ toasts'[Len(toasts')].type = "success"
                /\ \E k \in DOMAIN toasts'[Len(toasts')].description :
                      toasts'[Len(toasts')].description[k] = ToString(resp.chunks)
      ]_vars

C14_Witness ==
    /\ lastStep.op = "syncSettle" /\ lastStep.kind = "ok"
    /\ Len(toasts) = 1
    /\ toasts[1].description[2] = "42"
    /\ HasData
    /\ getIssued = 1
    /\ View = "Connected"

\* C15 (as claimed): whenever a GET is in flight after a sync or disconnect
\* has been dispatched, the fetch can still settle and apply its result.
C15_FetchAlwaysApplies ==
    (dataInFlight > 0 /\ (syncClicks > 0 \/ discClicks > 0))
       => ENABLED (\E resp \in DataResponses : DataSettle(resp))

\* C15 (amended): dispatching a sync or disconnect leaves the GET in flight;
\* while the page has not navigated away each request in flight can settle
\* whatever else is in flight; the fetch settling first applies its own
\* result and leaves the action's request alone, and the action settling
\* first applies its own and leaves the fetch alone.
C15_FetchAndActionIndependent ==
    /\ [](location = Here =>
            /\ dataInFlight > 0 =>
                  ENABLED (\E resp \in DataResponses : DataSettle(resp))
            /\ syncInFlight > 0 =>
                  ENABLED (\E resp \in SyncResponses : SyncSettle(resp))
            /\ discInFlight > 0 =>
                  ENABLED (\E resp \in DisconnectResponses : DisconnectSettle(resp)))
    /\ [][/\ (HandleSync \/ HandleDisconnect) =>
                /\ dataInFlight' = dataInFlight
                /\ dataVars' = dataVars /\ loading' = loading /\ error' = error
          /\ \A resp \in DataResponses :
                (DataSettle(resp) /\ (syncInFlight > 0 \/ discInFlight > 0)) =>
                   /\ resp.kind = "ok" =>
                         dataVars' = <<resp.user, resp.repos, resp.notifications>>
                   /\ resp.kind # "ok" => error' # Null
                   /\ syncInFlight' = syncInFlight /\ discInFlight' = discInFlight
                   /\ isSyncing' = isSyncing /\ toasts' = toasts
                   /\ location' = location
          /\ \A resp \in SyncResponses :
                (SyncSettle(resp) /\ dataInFlight > 0) =>
                   /\ dataInFlight' = dataInFlight
                   /\ dataVars' = dataVars /\ loading' = loading
                   /\ Len(toasts') = Len(toasts) + 1
          /\ \A resp \in DisconnectResponses :
                (DisconnectSettle(resp) /\ dataInFlight > 0) =>
                   /\ dataInFlight' = dataInFlight
                   /\ dataVars' = dataVars /\ loading' = loading
                   /\ resp.kind = "ok" => location' = IntegrationsPath
                   /\ resp.kind # "ok" => error' # Null
         ]_vars

C15_Witness ==
    /\ lastStep.op = "syncSettle"
    /\ dataInFlight = 1
    /\ getIssued = 1
    /\ syncClicks = 1
    /\ location = Here
\* C16: in the Connected view the disconnect control is enabled whatever is
\* in flight (up to MaxDisconnects clicks), and every click dispatches one
\* more POST /api/github/disconnect without touching the sync in flight.
C16_DisconnectUnguarded ==
    /\ []((location = Here /\ ~effectPending /\ View = "Connected"
              /\ discClicks < MaxDisconnects)
            => (~DisconnectDisabled /\ ENABLED HandleDisconnect))
    /\ [][HandleDisconnect =>
             /\ discInFlight' = discInFlight + 1
             /\ syncInFlight' = syncInFlight /\ isSyncing' = isSyncing]_vars

C16_Witness ==
    /\ lastStep.op = "disconnect"
    /\ discInFlight = 2
    /\ syncInFlight = 1
    /\ View = "Connected"

\* C17: while the account has stayed linked since identity became ready
\* (at most one identity change, linked now), exactly one GET has been
\* issued once the effect has run, none before; a GET is issued by an
\* effect run only, never by a settlement or a click.
C17_OneRequestPerReadiness ==
    /\ []((userLoaded /\ isConnected /\ identityChanges <= 1) =>
             getIssued = IF effectPending THEN 0 ELSE 1)
    /\ [][/\ getIssued' # getIssued =>
                /\ getIssued' = getIssued + 1
                /\ effectPending /\ ~effectPending'
                /\ userLoaded /\ isConnected
          /\ lastStep'.op \in {"dataSettle", "syncSettle", "disconnectSettle",
                                "sync", "disconnect"} =>
                getIssued' = getIssued /\ dataInFlight' <= dataInFlight
         ]_vars

C17_Witness ==
    /\ lastStep.op = "disconnectSettle" /\ lastStep.kind = "nonok"
    /\ userLoaded /\ isConnected /\ identityChanges <= 1
    /\ syncClicks = 1 /\ syncInFlight = 0
    /\ dataInFlight = 0
    /\ getIssued = 1
\* C18: every failure of a fetch, sync or disconnect request is handled by
\* its own handler, which runs to its end: a failed data fetch or disconnect
\* sets ErrorState, a failed sync emits a Sync Failed toast, and a thrown
\* non-Error value in the data fetch or disconnect gives the message
\* 'An unknown error occurred' and no details.
C18_FailuresCaughtLocally ==
    /\ [](location = Here =>
            /\ dataInFlight > 0 => \A resp \in Failures : ENABLED DataSettle(resp)
            /\ syncInFlight > 0 => \A resp \in Failures : ENABLED SyncSettle(resp)
            /\ discInFlight > 0 =>
                  \A resp \in Failures : ENABLED DisconnectSettle(resp))
    /\ [][\A resp \in Failures :
            /\ DataSettle(resp) =>
                  /\ error' # Null
                  /\ dataInFlight' = dataInFlight - 1 /\ ~loading'
                  /\ resp.kind = "throwNonError" =>
                        error' = Some([message |-> "An unknown error occurred",
                                       details |-> Undefined])
            /\ DisconnectSettle(resp) =>
                  /\ error' # Null
                  /\ discInFlight' = discInFlight - 1 /\ location' = Here
                  /\ resp.kind = "throwNonError" =>
                        error' = Some([message |-> "An unknown error occurred",
                                       details |-> Undefined])
            /\ SyncSettle(resp) =>
                  /\ Len(toasts') = Len(toasts) + 1
                  /\ toasts'[Len(toasts')].title = "Sync Failed"
                  /\ syncInFlight' = syncInFlight - 1 /\ ~isSyncing'
         ]_vars

C18_Witness ==
    /\ lastStep.op = "dataSettle" /\ lastStep.kind = "throwNonError"
    /\ error = Some([message |-> "An unknown error occurred", details |-> Undefined])
    /\ ~loading

\* C19: loading starts true, no step sets it back to true once it is false,
\* a data settlement of either kind leaves it false, and with the effect
\* running and every GET settling it is eventually false.
C19_LoadingClears ==
    /\ loading = TRUE
    /\ [][~loading => ~loading']_vars
    /\ [](lastStep.op = "dataSettle" => ~loading)
    /\ <>(~loading)

C19_Witness ==
    /\ lastStep.op = "dataSettle" /\ lastStep.kind = "nonok"
    /\ lastStep.viewBefore = "Loading"
    /\ ~loading
====
